---- MODULE Spec2Model ----
(***************************************************************************)
(* A model of the binary codec of alecthomas/binary (src/binary.go):       *)
(* Marshal / Unmarshal, Encoder.Encode, Decoder.Decode and the varint      *)
(* length prefix.  Go values are records carrying their dynamic type; the  *)
(* byte sink and the byte source are part of the state threaded through    *)
(* the recursive Encode / Decode operators, together with a log of every   *)
(* sink write, source read and custom-method invocation.                   *)
(***************************************************************************)
EXTENDS Integers, Sequences, FiniteSets, TLC

VARIABLES op, in, out

vars == <<op, in, out>>

(***************************************************************************)
(* Bounds of the model.                                                    *)
(***************************************************************************)
MaxN == 1          \* scalar magnitudes drawn from -1 .. MaxN
MaxElems == 2      \* element / pair counts of the sequences and maps drawn
MaxFail == 3       \* the failing sink write is one of the first MaxFail

(***************************************************************************)
(* Program and library constants.                                          *)
(***************************************************************************)
bufLen == 8            \* make([]byte, 8) in NewEncoder
MaxVarintLen64 == 10   \* encoding/binary.MaxVarintLen64, used by ReadUvarint

NoErr == "nil"
ErrEOF == "EOF"
ErrUnexpectedEOF == "unexpected EOF"
ErrOverflow == "binary: varint overflows a 64-bit integer"
ErrSink == "sink write failed"
ErrPointer == "can only Decode to pointer type"
ErrSize == "encoded size != real size"
ErrUnsupported == "unsupported type"
ErrS2Len == "expected data to be length 1"
ErrMarshal == "MarshalBinary failed"
ErrTime == "Time.UnmarshalBinary: invalid data"
Panic == "panic"
\* not an outcome of the program: a length the integers of the model cannot hold
\* (no input the model draws carries one)
OutOfModel == "length beyond the model"

(***************************************************************************)
(* Byte helpers.                                                           *)
(***************************************************************************)
RECURSIVE Zeros(_)
Zeros(n) == IF n <= 0 THEN <<>> ELSE <<0>> \o Zeros(n - 1)

Min(a, b) == IF a < b THEN a ELSE b
Take(s, n) == SubSeq(s, 1, Min(n, Len(s)))
Drop(s, n) == SubSeq(s, n + 1, Len(s))

RECURSIVE Flatten(_)
Flatten(ss) == IF ss = <<>> THEN <<>> ELSE Head(ss) \o Flatten(Tail(ss))

(***************************************************************************)
(* uint64 values are kept as MaxVarintLen64 base-128 digits, least         *)
(* significant first (the last digit holds bit 63 only), so that the whole *)
(* 64-bit range is representable.                                          *)
(***************************************************************************)
RECURSIVE Digits(_, _)
Digits(n, k) == IF k = 0 THEN <<>> ELSE <<n % 128>> \o Digits(n \div 128, k - 1)

\* 2^64 - 1 - x, digit by digit
Complement(x) ==
    [i \in 1..MaxVarintLen64 |-> IF i = MaxVarintLen64 THEN 1 - x[i] ELSE 127 - x[i]]

\* the conversion uint64(v) of a Go int v
Uint64(v) ==
    IF v >= 0 THEN Digits(v, MaxVarintLen64)
    ELSE Complement(Digits(-v - 1, MaxVarintLen64))

U64Max == [i \in 1..MaxVarintLen64 |-> IF i = MaxVarintLen64 THEN 1 ELSE 127]

Ge80(x) == \E i \in 2..MaxVarintLen64 : x[i] # 0
Shr7(x) == Tail(x) \o <<0>>

\* the uint64 fits the model's integers (below 2^28)
Small(x) == \A i \in 5..MaxVarintLen64 : x[i] = 0
ToInt(x) == x[1] + 128 * (x[2] + 128 * (x[3] + 128 * x[4]))

(***************************************************************************)
(* encoding/binary.PutUvarint(buf, x) on a buffer of bufLen bytes: an      *)
(* index past the buffer panics.                                           *)
(***************************************************************************)
RECURSIVE PutUvarintFrom(_, _, _, _)
PutUvarintFrom(x, i, acc, cap) ==
    IF i >= cap THEN [panic |-> TRUE, bytes |-> acc]
    ELSE IF Ge80(x) THEN PutUvarintFrom(Shr7(x), i + 1, Append(acc, 128 + x[1]), cap)
    ELSE [panic |-> FALSE, bytes |-> Append(acc, x[1])]

PutUvarint(x) == PutUvarintFrom(x, 0, <<>>, bufLen)

(***************************************************************************)
(* The byte sink behind an Encoder.  failAt = 0 is a sink that never fails *)
(* (the bytes.Buffer of Marshal); otherwise the failAt-th Write returns an *)
(* error.  Every Write is logged.                                          *)
(***************************************************************************)
NewEncoder(failAt) ==
    [w |-> <<>>, nw |-> 0, failAt |-> failAt, log |-> <<>>, ret |-> NoErr]

Write(e, bs) ==
    IF e.nw + 1 = e.failAt
    THEN [e EXCEPT !.nw = e.nw + 1, !.ret = ErrSink,
                   !.log = Append(e.log, [ev |-> "write", err |-> ErrSink])]
    ELSE [e EXCEPT !.nw = e.nw + 1, !.ret = NoErr, !.w = e.w \o bs,
                   !.log = Append(e.log, [ev |-> "write", err |-> NoErr])]

writeVarint(e, v) ==
    LET r == PutUvarint(Uint64(v))
    IN IF r.panic
       THEN [e EXCEPT !.ret = Panic, !.log = Append(e.log, [ev |-> "panic", err |-> Panic])]
       ELSE Write(e, r.bytes)

(***************************************************************************)
(* Go types.  name = "" is a predeclared type or a type literal; a defined *)
(* type (type Foo int64) keeps the kind of its underlying type and carries *)
(* its own name.                                                           *)
(***************************************************************************)
SizedKinds == {"int8", "uint8", "int16", "uint16", "int32", "uint32", "int64",
               "uint64", "float32", "float64", "complex64", "complex128"}
ScalarKinds == {"bool", "int", "uint"} \cup SizedKinds
SignedKinds == {"int", "int8", "int16", "int32", "int64"}

Pre(k) == [kind |-> k, name |-> ""]
Defined(n, t) == [t EXCEPT !.name = n]
SliceOf(t) == [kind |-> "slice", name |-> "", elem |-> t]
ArrayOf(n, t) == [kind |-> "array", name |-> "", elem |-> t, len |-> n]
MapOf(k, v) == [kind |-> "map", name |-> "", key |-> k, elem |-> v]
Field(n, t) == [name |-> n, exported |-> TRUE, type |-> t]
Unexported(n, t) == [name |-> n, exported |-> FALSE, type |-> t]
StructOf(n, fs) == [kind |-> "struct", name |-> n, fields |-> fs]

\* bytes of one part of a fixed-width scalar (a complex number has two parts)
PartWidth(k) ==
    CASE k \in {"bool", "int8", "uint8"} -> 1
      [] k \in {"int16", "uint16"} -> 2
      [] k \in {"int32", "uint32", "float32", "complex64"} -> 4
      [] OTHER -> 8
NumParts(k) == IF k \in {"complex64", "complex128"} THEN 2 ELSE 1

(***************************************************************************)
(* Go values: [ty, b] a bool, [ty, parts] a number (an integer, or the     *)
(* IEEE-754 bit pattern of each float part), [ty, bytes] a string,         *)
(* [ty, items] a slice or an array, [ty, pairs] a map in the order its     *)
(* iteration yields, [ty, fields] a struct.                                *)
(***************************************************************************)
Bool(b) == [ty |-> Pre("bool"), b |-> b]
Num(k, n) == [ty |-> Pre(k), parts |-> <<n>>]
Cplx(k, re, im) == [ty |-> Pre(k), parts |-> <<re, im>>]
Str(bs) == [ty |-> Pre("string"), bytes |-> bs]
Slice(t, vs) == [ty |-> SliceOf(t), items |-> vs]
Array(t, vs) == [ty |-> ArrayOf(Len(vs), t), items |-> vs]
Map(k, v, ps) == [ty |-> MapOf(k, v), pairs |-> ps]
Struct(t, fs) == [ty |-> t, fields |-> fs]
Convert(t, v) == [v EXCEPT !.ty = t]      \* the conversion T(v)

\* the raw bytes of a []byte value
BytesOf(v) == [i \in 1..Len(v.items) |-> v.items[i].parts[1]]
ByteSlice(bs) == Slice(Pre("uint8"), [i \in 1..Len(bs) |-> Num("uint8", bs[i])])

(***************************************************************************)
(* The types of the test file, and the method sets declared on them.       *)
(***************************************************************************)
s0 == StructOf("s0", <<Field("A", Pre("string")), Field("B", Pre("string")),
                       Field("C", Pre("int16"))>>)
s2 == StructOf("s2", <<Unexported("b", SliceOf(Pre("uint8")))>>)
Foo == Defined("Foo", Pre("int64"))
\* time.Time (the BirthDay field of s1), reduced to one unexported field
Time == StructOf("Time", <<Unexported("wall", Pre("uint8"))>>)

\* receiver of the type's MarshalBinary / UnmarshalBinary method, if any
MarshalRecv(t) ==
    CASE t.name = "s2" -> "ptr"
      [] t.name = "Time" -> "value"
      [] OTHER -> "none"
UnmarshalRecv(t) ==
    CASE t.name = "s2" -> "ptr"
      [] t.name = "Time" -> "ptr"
      [] OTHER -> "none"

\* v.(encoding.BinaryMarshaler): the method set of T holds the value-receiver
\* methods, that of *T the pointer-receiver methods too
IsBinaryMarshaler(ref, t) ==
    MarshalRecv(t) = "value" \/ (ref /\ MarshalRecv(t) = "ptr")
IsBinaryUnmarshaler(ref, t) ==
    UnmarshalRecv(t) = "value" \/ (ref /\ UnmarshalRecv(t) = "ptr")

\* (*s2).MarshalBinary returns s.b, nil; time.Time.MarshalBinary returns a
\* version byte and the instant, or an error for an instant it cannot encode
\* (wall = 0 stands for such an instant).
TimeVersion == 1
MarshalBinary(v) ==
    IF v.ty.name = "s2" THEN [buf |-> BytesOf(v.fields[1]), err |-> NoErr]
    ELSE IF v.fields[1].parts[1] = 0 THEN [buf |-> <<>>, err |-> ErrMarshal]
    ELSE [buf |-> <<TimeVersion, v.fields[1].parts[1]>>, err |-> NoErr]

\* (*s2).UnmarshalBinary keeps data when it is one byte long; (*Time) checks
\* the version byte and the length
UnmarshalBinary(v, data) ==
    IF v.ty.name = "s2"
    THEN IF Len(data) # 1 THEN [val |-> v, err |-> ErrS2Len]
         ELSE [val |-> [v EXCEPT !.fields = <<ByteSlice(data)>>], err |-> NoErr]
    ELSE IF Len(data) # 2 \/ data[1] # TimeVersion
         THEN [val |-> v, err |-> ErrTime]
         ELSE [val |-> [v EXCEPT !.fields = <<Num("uint8", data[2])>>], err |-> NoErr]

(***************************************************************************)
(* encoding/binary.Write / Read of a fixed-width value in DefaultEndian    *)
(* (little endian), two's complement.                                      *)
(***************************************************************************)
RECURSIVE LEPos(_, _)
LEPos(n, w) == IF w = 0 THEN <<>> ELSE <<n % 256>> \o LEPos(n \div 256, w - 1)

LE(n, w) ==
    IF n >= 0 THEN LEPos(n, w)
    ELSE LET c == LEPos(-n - 1, w) IN [i \in 1..w |-> 255 - c[i]]

RECURSIVE Mag(_)
Mag(bs) == IF bs = <<>> THEN 0 ELSE Head(bs) + 256 * Mag(Tail(bs))

FromLE(bs, signed) ==
    IF signed /\ bs[Len(bs)] >= 128
    THEN -Mag([i \in 1..Len(bs) |-> 255 - bs[i]]) - 1
    ELSE Mag(bs)

\* the bytes binary.Write builds for a sized scalar
FixedBytes(v) ==
    Flatten([i \in 1..Len(v.parts) |-> LE(v.parts[i], PartWidth(v.ty.kind))])

(***************************************************************************)
(* Encoder.Encode.                                                         *)
(***************************************************************************)
\* EncodeCase with the structural rules tried before the capability
EncodeCaseKindFirst(ref, t) ==
    CASE ~ref /\ t = SliceOf(Pre("uint8")) -> "[]byte"
      [] ~ref /\ t = Pre("string") -> "string"
      [] ~ref /\ t = Pre("bool") -> "bool"
      [] ~ref /\ t = Pre("int") -> "int"
      [] ~ref /\ t = Pre("uint") -> "uint"
      [] ~ref /\ t.name = "" /\ t.kind \in SizedKinds -> "sized"
      [] t.kind \in {"array", "slice", "struct", "map"} -> "default"
      [] IsBinaryMarshaler(ref, t) -> "BinaryMarshaler"
      [] OTHER -> "default"

\* the case of the type switch of Encode that the interface value takes; ref
\* says that the interface holds a pointer to a value of type t
EncodeCase(ref, t) ==
    CASE IsBinaryMarshaler(ref, t) -> "BinaryMarshaler"
      [] ~ref /\ t = SliceOf(Pre("uint8")) -> "[]byte"
      [] ~ref /\ t = Pre("string") -> "string"
      [] ~ref /\ t = Pre("bool") -> "bool"
      [] ~ref /\ t = Pre("int") -> "int"
      [] ~ref /\ t = Pre("uint") -> "uint"
      [] ~ref /\ t.name = "" /\ t.kind \in SizedKinds -> "sized"
      [] OTHER -> "default"

\* v.CanSet() && t.Field(i).Name != "_" for field f of a struct value that is
\* addressable or not
FieldCoded(addressable, f) == addressable /\ f.exported /\ f.name # "_"

RECURSIVE Picked(_, _, _)
Picked(fs, vs, addressable) ==
    IF fs = <<>> THEN <<>>
    ELSE (IF FieldCoded(addressable, Head(fs)) THEN <<Head(vs)>> ELSE <<>>)
         \o Picked(Tail(fs), Tail(vs), addressable)

RECURSIVE Interleave(_)
Interleave(ps) ==
    IF ps = <<>> THEN <<>> ELSE <<Head(ps)[1], Head(ps)[2]>> \o Interleave(Tail(ps))

Logged(e, ev, err) == [e EXCEPT !.ret = err, !.log = Append(e.log, [ev |-> ev, err |-> err])]

RECURSIVE Encode(_, _, _)
RECURSIVE EncodeAll(_, _)

\* the loops of Encode: each element through rv.Index(i).Interface(), a copy of
\* the element held by value, until one Encode returns an error
EncodeAll(e, vs) ==
    IF vs = <<>> THEN e
    ELSE LET e1 == Encode(e, FALSE, Head(vs))
         IN IF e1.ret # NoErr THEN e1 ELSE EncodeAll(e1, Tail(vs))

Encode(e, ref, v) ==
    LET c == EncodeCase(ref, v.ty) IN
    CASE c = "BinaryMarshaler" ->
           LET m == MarshalBinary(v)
               e1 == Logged(e, "MarshalBinary", m.err)
           IN IF m.err # NoErr THEN e1
              ELSE LET e2 == writeVarint(e1, Len(m.buf))
                   IN IF e2.ret # NoErr THEN e2
                      \* the error of this Write is assigned to the err that the
                      \* := of the case clause declared; the function returns
                      \* its named result, which is still nil
                      ELSE [Write(e2, m.buf) EXCEPT !.ret = NoErr]
      [] c = "[]byte" ->
           LET e1 == writeVarint(e, Len(v.items))
           IN IF e1.ret # NoErr THEN e1 ELSE Write(e1, BytesOf(v))
      [] c = "string" ->
           LET e1 == writeVarint(e, Len(v.bytes))
           IN IF e1.ret # NoErr THEN e1 ELSE Write(e1, v.bytes)
      [] c = "bool" -> Write(e, <<IF v.b THEN 1 ELSE 0>>)
      [] c = "int" -> Write(e, LE(v.parts[1], 8))
      [] c = "uint" -> Write(e, LE(v.parts[1], 8))
      [] c = "sized" -> Write(e, FixedBytes(v))
      [] OTHER ->
           \* rv := reflect.Indirect(reflect.ValueOf(v)): addressable exactly
           \* when v was a pointer
           CASE v.ty.kind \in {"array", "slice"} ->
                  LET e1 == writeVarint(e, Len(v.items))
                  IN IF e1.ret # NoErr THEN e1 ELSE EncodeAll(e1, v.items)
             [] v.ty.kind = "struct" ->
                  EncodeAll(e, Picked(v.ty.fields, v.fields, ref))
             [] v.ty.kind = "map" ->
                  LET e1 == writeVarint(e, Len(v.pairs))
                  IN IF e1.ret # NoErr THEN e1 ELSE EncodeAll(e1, Interleave(v.pairs))
             [] OTHER -> Logged(e, "dispatch", ErrUnsupported)

\* Marshal: Encode into a bytes.Buffer, which never fails
Marshal(ref, v) ==
    LET e == Encode(NewEncoder(0), ref, v)
    IN IF e.ret # NoErr THEN [bytes |-> <<>>, err |-> e.ret]
       ELSE [bytes |-> e.w, err |-> NoErr]

(***************************************************************************)
(* The byte source behind a Decoder: a bufio.Reader over the reader given  *)
(* to NewDecoder.  The sources of the model are bytes.Readers shorter than *)
(* the buffer of the bufio.Reader, so the first fill buffers all of src.   *)
(* Every read is logged.                                                   *)
(***************************************************************************)
NewDecoder(b) == [src |-> b, log |-> <<>>, ret |-> NoErr]

Read_(d, err, n) ==
    [d EXCEPT !.ret = err, !.src = Drop(d.src, n),
              !.log = Append(d.log, [ev |-> "read", err |-> err])]

\* encoding/binary.ReadUvarint over the ReadByte of the bufio.Reader
RECURSIVE ReadUvarintFrom(_, _, _)
ReadUvarintFrom(src, i, x) ==
    IF i = MaxVarintLen64 THEN [x |-> x, n |-> i, err |-> ErrOverflow]
    ELSE IF src = <<>>
    THEN [x |-> x, n |-> i, err |-> IF i > 0 THEN ErrUnexpectedEOF ELSE ErrEOF]
    ELSE IF Head(src) < 128
    THEN IF i = MaxVarintLen64 - 1 /\ Head(src) > 1
         THEN [x |-> x, n |-> i + 1, err |-> ErrOverflow]
         ELSE [x |-> [x EXCEPT ![i + 1] = Head(src)], n |-> i + 1, err |-> NoErr]
    ELSE ReadUvarintFrom(Tail(src), i + 1, [x EXCEPT ![i + 1] = Head(src) % 128])

ReadUvarint(d) ==
    LET r == ReadUvarintFrom(d.src, 0, Uint64(0))
    IN [d |-> Read_(d, r.err, r.n), x |-> r.x]

\* bufio.Reader.Read(buf) with len(buf) = n: what is buffered, at most n bytes,
\* and an error only when nothing at all could be read
Read(d, n) ==
    LET k == Min(n, Len(d.src))
        err == IF n > 0 /\ k = 0 THEN ErrEOF ELSE NoErr
    IN [d |-> Read_(d, err, k), buf |-> Take(d.src, k) \o Zeros(n - k)]

\* the io.ReadFull of binary.Read: all n bytes or an error
ReadFull(d, n) ==
    LET err == IF Len(d.src) >= n THEN NoErr
               ELSE IF Len(d.src) = 0 THEN ErrEOF ELSE ErrUnexpectedEOF
    IN [d |-> Read_(d, err, Min(n, Len(d.src))), buf |-> Take(d.src, n), ok |-> err = NoErr]

(***************************************************************************)
(* Decoder.Decode.                                                         *)
(***************************************************************************)
\* DecodeCase taking a plain value for a pointer to it
DecodeCaseAnyValue(ref, t) ==
    CASE t = Pre("string") -> "*string"
      [] t = Pre("bool") -> "*bool"
      [] t = Pre("int") -> "*int"
      [] t = Pre("uint") -> "*uint"
      [] t.name = "" /\ t.kind \in SizedKinds -> "*sized"
      [] OTHER -> "default"

\* the case of the type switch of Decode that the interface value takes
DecodeCase(ref, t) ==
    CASE ref /\ t = Pre("string") -> "*string"
      [] ref /\ t = Pre("bool") -> "*bool"
      [] ref /\ t = Pre("int") -> "*int"
      [] ref /\ t = Pre("uint") -> "*uint"
      [] ref /\ t.name = "" /\ t.kind \in SizedKinds -> "*sized"
      [] OTHER -> "default"

\* rv.CanAddr() of rv := reflect.Indirect(reflect.ValueOf(v))
CanAddr(ref) == ref

\* SizeMismatch with the length check left out
SizeMismatchNever(l, t) == FALSE

\* int(l) != t.Len() for an array target (false when the counts agree)
SizeMismatch(l, t) == ~Small(l) \/ ToInt(l) # t.len

\* MakeMap that keeps the entries the target holds
MakeMapKeep(cur) == cur

\* the map a target holds when population starts: reflect.MakeMap(t)
MakeMap(cur) == <<>>

\* rv.SetMapIndex(kv, vv)
SetMapIndex(ps, k, v) ==
    IF \E i \in 1..Len(ps) : ps[i][1] = k
    THEN [i \in 1..Len(ps) |-> IF ps[i][1] = k THEN <<k, v>> ELSE ps[i]]
    ELSE Append(ps, <<k, v>>)

RECURSIVE Zero(_)
RECURSIVE ZeroFields(_)
ZeroFields(fs) == IF fs = <<>> THEN <<>> ELSE <<Zero(Head(fs).type)>> \o ZeroFields(Tail(fs))
Zero(t) ==
    CASE t.kind = "bool" -> [ty |-> t, b |-> FALSE]
      [] t.kind \in ScalarKinds \ {"bool"} -> [ty |-> t, parts |-> Take(<<0, 0>>, NumParts(t.kind))]
      [] t.kind = "string" -> [ty |-> t, bytes |-> <<>>]
      [] t.kind = "slice" -> [ty |-> t, items |-> <<>>]
      [] t.kind = "array" -> [ty |-> t, items |-> [i \in 1..t.len |-> Zero(t.elem)]]
      [] t.kind = "map" -> [ty |-> t, pairs |-> <<>>]
      [] OTHER -> [ty |-> t, fields |-> ZeroFields(t.fields)]

\* the parts of a sized scalar from the bytes binary.Read took
PartsOf(k, bs) ==
    [i \in 1..NumParts(k) |->
        FromLE(SubSeq(bs, (i - 1) * PartWidth(k) + 1, i * PartWidth(k)), k \in SignedKinds)]

Failed(d, ev, err, val) ==
    [d |-> [d EXCEPT !.ret = err, !.log = Append(d.log, [ev |-> ev, err |-> err])],
     val |-> val]

RECURSIVE Decode(_, _, _)
RECURSIVE DecodeItems(_, _, _, _)
RECURSIVE DecodeFields(_, _, _, _)
RECURSIVE DecodePairs(_, _, _, _)

\* for i := 0; i < int(l); i++ { Decode(rv.Index(i).Addr().Interface()) }
DecodeItems(d, items, i, n) ==
    IF i > n THEN [d |-> d, val |-> items]
    ELSE IF i > Len(items)
    THEN [d |-> [d EXCEPT !.ret = Panic,
                          !.log = Append(d.log, [ev |-> "panic", err |-> Panic])],
          val |-> items]
    ELSE LET r == Decode(d, TRUE, items[i])
             its == [items EXCEPT ![i] = r.val]
         IN IF r.d.ret # NoErr THEN [d |-> r.d, val |-> its]
            ELSE DecodeItems(r.d, its, i + 1, n)

\* the struct loop: every field that can be set and is not named "_"
DecodeFields(d, fs, vs, i) ==
    IF i > Len(fs) THEN [d |-> d, val |-> vs]
    ELSE IF ~FieldCoded(TRUE, fs[i]) THEN DecodeFields(d, fs, vs, i + 1)
    ELSE LET r == Decode(d, TRUE, vs[i])
             ws == [vs EXCEPT ![i] = r.val]
         IN IF r.d.ret # NoErr THEN [d |-> r.d, val |-> ws]
            ELSE DecodeFields(r.d, fs, ws, i + 1)

\* the map loop: a fresh key and a fresh value per pair, then SetMapIndex
DecodePairs(d, t, ps, n) ==
    IF n = 0 THEN [d |-> d, val |-> ps]
    ELSE LET k == Decode(d, TRUE, Zero(t.key))
         IN IF k.d.ret # NoErr THEN [d |-> k.d, val |-> ps]
            ELSE LET v == Decode(k.d, TRUE, Zero(t.elem))
                 IN IF v.d.ret # NoErr THEN [d |-> v.d, val |-> ps]
                    ELSE DecodePairs(v.d, t, SetMapIndex(ps, k.val, v.val), n - 1)

\* Decode(v) where v holds the target cur itself (ref = FALSE) or a pointer to
\* it (ref = TRUE); val is what the target holds when Decode returns
Decode(d, ref, cur) ==
    LET t == cur.ty
        c == DecodeCase(ref, t)
    IN
    CASE c = "*string" ->
           LET l == ReadUvarint(d)
           IN IF l.d.ret # NoErr THEN [d |-> l.d, val |-> cur]
              ELSE IF ~Small(l.x) THEN Failed(l.d, "model", OutOfModel, cur)
              ELSE LET r == Read(l.d, ToInt(l.x))
                   IN [d |-> r.d, val |-> [cur EXCEPT !.bytes = r.buf]]
      [] c = "*bool" ->
           LET r == ReadFull(d, 1)
           IN [d |-> r.d, val |-> [cur EXCEPT !.b = r.ok /\ r.buf[1] # 0]]
      [] c = "*int" ->
           LET r == ReadFull(d, 8)
           IN [d |-> r.d,
               val |-> [cur EXCEPT !.parts = <<IF r.ok THEN FromLE(r.buf, TRUE) ELSE 0>>]]
      [] c = "*uint" ->
           LET r == ReadFull(d, 8)
           IN [d |-> r.d,
               val |-> [cur EXCEPT !.parts = <<IF r.ok THEN FromLE(r.buf, FALSE) ELSE 0>>]]
      [] c = "*sized" ->
           LET r == ReadFull(d, NumParts(t.kind) * PartWidth(t.kind))
           IN [d |-> r.d,
               val |-> IF r.ok THEN [cur EXCEPT !.parts = PartsOf(t.kind, r.buf)] ELSE cur]
      [] OTHER ->
           IF IsBinaryUnmarshaler(ref, t)
           THEN LET l == ReadUvarint(d)
                IN IF l.d.ret # NoErr THEN [d |-> l.d, val |-> cur]
                   ELSE IF ~Small(l.x) THEN Failed(l.d, "model", OutOfModel, cur)
                   ELSE LET r == Read(l.d, ToInt(l.x))
                            \* the error of Read is dropped: the method is
                            \* called with buf as it is
                            u == UnmarshalBinary(cur, r.buf)
                        IN Failed(r.d, "UnmarshalBinary", u.err, u.val)
           ELSE IF ~CanAddr(ref) THEN Failed(d, "dispatch", ErrPointer, cur)
           ELSE CASE t.kind \in {"array", "slice"} ->
                  LET l == ReadUvarint(d)
                  IN IF l.d.ret # NoErr THEN [d |-> l.d, val |-> cur]
                     ELSE IF t.kind = "slice"
                     THEN IF ~Small(l.x) THEN Failed(l.d, "model", OutOfModel, cur)
                          ELSE LET r == DecodeItems(l.d,
                                            [i \in 1..ToInt(l.x) |-> Zero(t.elem)],
                                            1, ToInt(l.x))
                               IN [d |-> r.d, val |-> [cur EXCEPT !.items = r.val]]
                     ELSE IF SizeMismatch(l.x, t) THEN Failed(l.d, "dispatch", ErrSize, cur)
                     ELSE LET r == DecodeItems(l.d, cur.items, 1, ToInt(l.x))
                          IN [d |-> r.d, val |-> [cur EXCEPT !.items = r.val]]
             [] t.kind = "struct" ->
                  LET r == DecodeFields(d, t.fields, cur.fields, 1)
                  IN [d |-> r.d, val |-> [cur EXCEPT !.fields = r.val]]
             [] t.kind = "map" ->
                  LET l == ReadUvarint(d)
                  IN IF l.d.ret # NoErr THEN [d |-> l.d, val |-> cur]
                     ELSE IF ~Small(l.x) THEN Failed(l.d, "model", OutOfModel, cur)
                     ELSE LET r == DecodePairs(l.d, t, MakeMap(cur.pairs), ToInt(l.x))
                          IN [d |-> r.d, val |-> [cur EXCEPT !.pairs = r.val]]
             [] OTHER -> Failed(d, "dispatch", ErrUnsupported, cur)

\* Unmarshal(b, v): Decode from a bytes.Reader over b
Unmarshal(b, ref, cur) ==
    LET r == Decode(NewDecoder(b), ref, cur)
    IN [err |-> r.d.ret, val |-> r.val, log |-> r.d.log]

(***************************************************************************)
(* The values the model draws.                                             *)
(***************************************************************************)
SeqsUpTo(S, n) == UNION {[1..k -> S] : k \in 0..n}

Letters == {65, 66}                      \* "A", "B"
TestNum == 32                            \* Foo(32) of the test file
Ints == (-1..MaxN) \cup {TestNum}
Nats == (0..MaxN) \cup {TestNum}
Patterns == 0..MaxN                      \* IEEE-754 bit patterns of float parts

Scalars ==
    {Bool(b) : b \in BOOLEAN}
    \cup {Num(k, n) : k \in SignedKinds, n \in Ints}
    \cup {Num(k, n) : k \in {"uint", "uint8", "uint16", "uint32", "uint64"}, n \in Nats}
    \cup {Num(k, n) : k \in {"float32", "float64"}, n \in Patterns}
    \cup {Cplx(k, re, im) : k \in {"complex64", "complex128"}, re \in Patterns, im \in Patterns}

\* type T k for every scalar kind k (type Foo int64 is one of them)
NamedScalars == {Convert(Defined("Foo", v.ty), v) : v \in Scalars}

Strings == {Str(bs) : bs \in SeqsUpTo(Letters, MaxElems)}
ShortStrings == {Str(bs) : bs \in SeqsUpTo(Letters, 1)}
ByteSlices == {ByteSlice(bs) : bs \in SeqsUpTo({0, 19}, MaxElems)}

s0Values == {Struct(s0, <<a, b, c>>) :
                a \in ShortStrings, b \in {Str(<<>>), Str(<<66>>)}, c \in {Num("int16", n) : n \in -1..MaxN}}
s0v == Struct(s0, <<Str(<<65>>), Str(<<66>>), Num("int16", 1)>>)

s2Values == {Struct(s2, <<ByteSlice(bs)>>) : bs \in SeqsUpTo({19}, MaxElems)}
s2v == Struct(s2, <<ByteSlice(<<19>>)>>)
TimeValues == {Struct(Time, <<Num("uint8", n)>>) : n \in 0..MaxN + 1}

\* struct types built from the above: a struct field, a skipped and an
\* unexported field, custom-capability fields held by value
Outer == StructOf("Outer", <<Field("In", s0), Field("N", Pre("uint8"))>>)
Pad == StructOf("Pad", <<Field("A", Pre("uint8")), Unexported("_", Pre("uint8")),
                         Unexported("c", Pre("uint8")), Field("D", Pre("uint8"))>>)
Rec == StructOf("Rec", <<Field("Name", Pre("string")), Field("BirthDay", Time),
                         Field("Siblings", Pre("int"))>>)
Hold == StructOf("Hold", <<Field("X", s2)>>)

Structs ==
    s0Values \cup s2Values \cup TimeValues
    \cup {Struct(Outer, <<i, Num("uint8", n)>>) : i \in {s0v, Zero(s0)}, n \in 0..MaxN}
    \cup {Struct(Pad, <<Num("uint8", a), Num("uint8", 0), Num("uint8", 0), Num("uint8", d)>>) :
             a \in 0..MaxN, d \in 0..MaxN}
    \cup {Struct(Rec, <<n, t, Num("int", k)>>) : n \in ShortStrings, t \in TimeValues, k \in {2}}
    \cup {Struct(Hold, <<x>>) : x \in s2Values}

Sequences ==
    ByteSlices
    \cup {Slice(Pre("string"), vs) : vs \in SeqsUpTo(ShortStrings \ {Str(<<66>>)}, MaxElems)}
    \cup {Slice(s0, vs) : vs \in SeqsUpTo({s0v}, MaxElems)}
    \cup {Slice(s2, vs) : vs \in SeqsUpTo({s2v}, MaxElems)}
    \cup {Slice(Time, vs) : vs \in SeqsUpTo({Struct(Time, <<Num("uint8", 1)>>)}, MaxElems)}
    \cup {Array(Pre("uint8"), vs) : vs \in SeqsUpTo({Num("uint8", n) : n \in 1..MaxN}, MaxElems)}

DistinctKeys(ps) == \A i, j \in 1..Len(ps) : ps[i][1] = ps[j][1] => i = j
ByteNums == {Num("uint8", n) : n \in 0..MaxN}
Maps ==
    {Map(Pre("uint8"), Pre("uint8"), ps) :
        ps \in {q \in SeqsUpTo(ByteNums \X ByteNums, MaxElems) : DistinctKeys(q)}}
    \cup {Map(Pre("string"), Pre("string"), ps) :
        ps \in {q \in SeqsUpTo({Str(<<65>>)} \X ShortStrings, 1) : DistinctKeys(q)}}

Values == Scalars \cup NamedScalars \cup Strings \cup Structs \cup Sequences \cup Maps

\* the values encoded through a sink that fails
SinkValues == Strings \cup Structs \cup Sequences \cup Maps \cup {Num("int16", 1), Bool(TRUE)}

(***************************************************************************)
(* The byte strings handed to Unmarshal other than the results of Marshal: *)
(* fixed-width scalars whole and cut short, sequence and map encodings     *)
(* with any count, length-prefixed blobs with fewer bytes than promised.   *)
(***************************************************************************)
Counts == 0..MaxElems + 1

\* the encoding of scalar v under its base type, whole (cut = 0) or cut short
ScalarWire(v, cut) ==
    LET b == Marshal(FALSE, Convert(Pre(v.ty.kind), v)).bytes
    IN Take(b, Len(b) - cut)
ScalarCases ==
    {[b |-> ScalarWire(v, cut), ref |-> r, cur |-> Zero(v.ty)] :
        v \in Scalars \cup NamedScalars, r \in BOOLEAN, cut \in 0..1}

\* count c, then k element bytes 1, 2, ..
ArrayCases ==
    {[b |-> <<c>> \o [i \in 1..k |-> i], ref |-> TRUE,
      cur |-> Array(Pre("uint8"), [i \in 1..n |-> Num("uint8", 9)])] :
        c \in Counts, k \in Counts, n \in 0..MaxElems}

MapTargets ==
    {Map(Pre("uint8"), Pre("uint8"), ps) :
        ps \in {<<>>, << <<Num("uint8", 0), Num("uint8", 9)>> >>,
                << <<Num("uint8", 5), Num("uint8", 9)>> >>}}
MapCases ==
    {[b |-> <<Len(ps)>> \o Flatten([i \in 1..Len(ps) |-> <<ps[i][1], ps[i][2]>>]),
      ref |-> TRUE, cur |-> m] :
        ps \in SeqsUpTo((0..MaxN) \X (0..MaxN), MaxElems), m \in MapTargets}

\* a prefix promising l bytes, followed by k <= l bytes
BlobCases ==
    {[b |-> <<l>> \o [i \in 1..k |-> 19], ref |-> TRUE, cur |-> t] :
        l \in Counts, k \in Counts, t \in {Str(<<>>), Zero(s2), Zero(Time), Zero(Hold)}}

DecodeCases == ScalarCases \cup ArrayCases \cup MapCases \cup BlobCases

\* the targets of decoding the bytes Marshal returned for v
Targets(v) ==
    {Zero(v.ty)} \cup (IF v.ty.kind = "map" THEN {m \in Maps \cup MapTargets : m.ty = v.ty} ELSE {})

\* the values given to writeVarint; int(-1) converts to the uint64 2^64 - 1
VarintInputs == {0, 1, 127, 128, 129, 255, 300, 16383, 16384, 16385, 2097151, 2097152, -1, -2}

\* unsigned LEB128 of x, as PutUvarint writes it into a buffer that is long enough
Leb128(x) == PutUvarintFrom(x, 0, <<>>, MaxVarintLen64).bytes

VarintWires ==
    {Leb128(Uint64(v)) : v \in VarintInputs}
    \cup {Take(Leb128(Uint64(v)), Len(Leb128(Uint64(v))) - 1) : v \in VarintInputs}
    \cup {[i \in 1..k |-> 255] : k \in 9..11}
    \cup {[i \in 1..10 |-> IF i = 10 THEN 2 ELSE 255]}

(***************************************************************************)
(* The state machine: one call at a time.  op names the call that has      *)
(* returned (or "idle"), in its arguments, out its results.                *)
(***************************************************************************)
Init == op = "idle" /\ in = [ref |-> FALSE] /\ out = [err |-> NoErr]

\* b, err := Marshal(v) or Marshal(&v)
MarshalCall ==
    /\ op = "idle"
    /\ \E v \in Values, r \in BOOLEAN :
          /\ op' = "Marshal"
          /\ in' = [ref |-> r, v |-> v]
          /\ out' = Marshal(r, v)

\* err := Unmarshal(b, &t) on the bytes the last Marshal returned
UnmarshalBack ==
    /\ op = "Marshal"
    /\ out.err = NoErr
    /\ \E t \in Targets(in.v) :
          /\ op' = "RoundTrip"
          /\ in' = [ref |-> TRUE, v |-> in.v, vref |-> in.ref, b |-> out.bytes, cur |-> t]
          /\ out' = Unmarshal(out.bytes, TRUE, t)

\* err := Unmarshal(b, t) or Unmarshal(b, &t) on given bytes
UnmarshalCall ==
    /\ op = "idle"
    /\ \E c \in DecodeCases :
          /\ op' = "Unmarshal"
          /\ in' = c
          /\ out' = Unmarshal(c.b, c.ref, c.cur)

\* err := NewEncoder(w).Encode(v) on a sink whose f-th Write fails
EncodeCall ==
    /\ op = "idle"
    /\ \E v \in SinkValues, r \in BOOLEAN, f \in 1..MaxFail :
          /\ op' = "Encode"
          /\ in' = [ref |-> r, v |-> v, failAt |-> f]
          /\ out' = Encode(NewEncoder(f), r, v)

\* e.writeVarint(v) on a sink that never fails
WriteVarintCall ==
    /\ op = "idle"
    /\ \E v \in VarintInputs :
          /\ op' = "writeVarint"
          /\ in' = [ref |-> FALSE, n |-> v]
          /\ out' = writeVarint(NewEncoder(0), v)

\* binary.ReadUvarint(d.r) on given bytes
ReadUvarintCall ==
    /\ op = "idle"
    /\ \E b \in VarintWires :
          /\ op' = "ReadUvarint"
          /\ in' = [ref |-> FALSE, b |-> b]
          /\ out' = ReadUvarint(NewDecoder(b))

\* the caller goes on to its next call
Return ==
    /\ op # "idle"
    /\ op' = "idle" /\ in' = [ref |-> FALSE] /\ out' = [err |-> NoErr]

Next ==
    \/ MarshalCall
    \/ UnmarshalBack
    \/ UnmarshalCall
    \/ EncodeCall
    \/ WriteVarintCall
    \/ ReadUvarintCall
    \/ Return

Spec == Init /\ [][Next]_vars

(***************************************************************************)
(* Helpers of the properties.                                              *)
(***************************************************************************)
PairSet(ps) == {ps[i] : i \in 1..Len(ps)}

\* structural equality; a map is its set of key -> value associations
Same(a, b) ==
    IF a.ty.kind = "map" THEN a.ty = b.ty /\ b.ty.kind = "map" /\ PairSet(a.pairs) = PairSet(b.pairs)
    ELSE a = b

\* the custom methods of the value's own type round-trip its payload
OwnMethodsRoundTrip(v) ==
    /\ v.ty.name = "s2" => Len(v.fields[1].items) = 1
    /\ v.ty.name = "Time" => v.fields[1].parts[1] # 0
    /\ v.ty.name = "Rec" => v.fields[2].fields[1].parts[1] # 0
    /\ v.ty.name = "Hold" => Len(v.fields[1].fields[1].items) = 1

\* the values of the supported types: scalars, text, byte sequences, arrays and
\* slices, maps, structs, custom-capability types, and nestings of them
Supported == {v \in Values \ NamedScalars : OwnMethodsRoundTrip(v)}

\* how the tests hand v to Marshal: a struct through a reference (s0v, s1v and
\* s2v are pointers), any other value by value
HandedAs(ref, v) == ref <=> v.ty.kind = "struct"

\* C1: for every value v of a supported type (a struct holding a struct field
\* and a slice of structs among them), Marshal(v) succeeds and
\* Unmarshal(Marshal(v), &v2) succeeds with v2 structurally equal to v.
C1_RoundTrip ==
    /\ (op = "Marshal" /\ in.v \in Supported /\ HandedAs(in.ref, in.v)) => out.err = NoErr
    /\ (op = "RoundTrip" /\ in.v \in Supported /\ HandedAs(in.vref, in.v) /\ in.cur = Zero(in.v.ty))
          => (out.err = NoErr /\ Same(out.val, in.v))

\* the encodings of the exported, writable fields of struct value v that are not
\* named "_", concatenated in declaration order; a struct field contributes its
\* own fields the same way
RECURSIVE FieldsWire(_)
FieldsWire(v) ==
    Flatten([i \in 1..Len(v.fields) |->
        IF ~FieldCoded(TRUE, v.ty.fields[i]) THEN <<>>
        ELSE IF v.fields[i].ty.kind = "struct" THEN FieldsWire(v.fields[i])
        ELSE Marshal(FALSE, v.fields[i]).bytes])

PlainStructs == {v \in Structs : v.ty.name \in {"s0", "Outer", "Pad"}}

\* C2: wherever Encode reaches a struct value (top-level through a reference,
\* top-level as a plain value, or as a field or element of another composite),
\* the bytes written are exactly the concatenation of the encodings of its
\* exported fields in declaration order, omitting only fields named "_" or not
\* writable, with no struct-level prefix.
C2_StructWire ==
    /\ (op = "Marshal" /\ in.v \in PlainStructs)
          => (out.err = NoErr /\ out.bytes = FieldsWire(in.v))
    /\ (op = "Marshal" /\ in.v.ty = SliceOf(s0))
          => (out.err = NoErr
              /\ out.bytes = <<Len(in.v.items)>>
                             \o Flatten([i \in 1..Len(in.v.items) |-> FieldsWire(in.v.items[i])]))

\* C3: for every value of a named type whose underlying type is a base scalar,
\* Marshal succeeds and returns exactly the bytes Marshal returns for the same
\* value converted to the underlying type.
C3_AliasLikeBase ==
    (op = "Marshal" /\ ~in.ref /\ in.v \in NamedScalars)
        => (out.err = NoErr /\ out = Marshal(FALSE, Convert(Pre(in.v.ty.kind), in.v)))

\* C4: for every value that exposes the binary-marshaler capability, whose
\* encoding method returned payload p, Encode writes exactly Varint(len(p))
\* followed by p, whatever the underlying shape of the value.
C4_CustomFirst ==
    (op = "Marshal" /\ IsBinaryMarshaler(in.ref, in.v.ty) /\ MarshalBinary(in.v).err = NoErr)
        => (out.err = NoErr
            /\ out.bytes = Leb128(Uint64(Len(MarshalBinary(in.v).buf))) \o MarshalBinary(in.v).buf)

\* the payload [0x13] of the test, handed through a reference, gave [0x1, 0x13]
C4_Witness ==
    op = "Marshal" /\ in.ref /\ in.v = s2v /\ out.err = NoErr /\ out.bytes = <<1, 19>>

BaseScalarType(t) == t.name = "" /\ t.kind \in ScalarKinds
FullWidth(t) == NumParts(t.kind) * PartWidth(t.kind)

C6_FixedLength ==
    (op = "Unmarshal" /\ in.cur.ty.kind = "array")
        => LET c == in.b[1]
               n == in.cur.ty.len
           IN /\ Len(out.val.items) = n
              /\ c # n => (out.err = ErrSize /\ out.val = in.cur /\ Len(out.log) = 2)
              /\ (c = n /\ Len(in.b) > n)
                    => (out.err = NoErr
                        /\ out.val.items = [i \in 1..n |-> Num("uint8", in.b[i + 1])]
                        /\ Len(out.log) = n + 1)
              /\ (c = n /\ Len(in.b) <= n) => out.err \in {ErrEOF, ErrUnexpectedEOF}

\* count 3 into a target of 2 elements
C6_Witness ==
    /\ op = "Unmarshal" /\ in.cur.ty.kind = "array" /\ in.cur.ty.len = 2
    /\ in.b = <<3, 1, 2, 3>> /\ out.err = ErrSize /\ out.val = in.cur

\* the boundary values, as the int given to writeVarint (-1 converts to the
\* uint64 2^64 - 1), and the length of the encoding of each
Boundary == {0, 127, 128, 16383, 16384, -1}
BoundaryLen(v) ==
    CASE v \in {0, 127} -> 1
      [] v \in {128, 16383} -> 2
      [] v = 16384 -> 3
      [] OTHER -> 10

\* C7: the varint codec encodes 0, 127, 128, 16383, 16384 and 2^64-1 to byte
\* sequences of length 1, 1, 2, 2, 3 and 10 (7 data bits per byte, least
\* significant group first, high bit as continuation flag), and decoding each of
\* those byte sequences returns the original value.
C7_VarintBoundary ==
    /\ (op = "writeVarint" /\ in.n \in Boundary)
          => (out.ret = NoErr /\ Len(out.w) = BoundaryLen(in.n)
              /\ out.w = Leb128(Uint64(in.n)))
    /\ \A v \in Boundary :
          (op = "ReadUvarint" /\ in.b = Leb128(Uint64(v)))
              => (out.d.ret = NoErr /\ out.x = Uint64(v))

\* the pairs a map encoding carries, in wire order (uint8 keys and values)
WirePairs(b) == [i \in 1..b[1] |-> <<Num("uint8", b[2 * i]), Num("uint8", b[2 * i + 1])>>]

\* the associations of a pair list in which the last occurrence of a key wins
LastWins(ps) ==
    {ps[i] : i \in {j \in 1..Len(ps) : \A k \in j + 1..Len(ps) : ps[k][1] # ps[j][1]}}

\* C8: an empty mapping encodes to exactly [0x0]; decoding an encoding of a
\* mapping m, in whatever pair order, into a target that may already hold
\* entries leaves the target holding exactly m's associations and nothing else;
\* when the wire carries a key more than once, the last occurrence wins.
C8_MapDecode ==
    /\ (op = "Marshal" /\ in.v.ty.kind = "map" /\ in.v.pairs = <<>>)
          => (out.err = NoErr /\ out.bytes = <<0>>)
    /\ (op = "RoundTrip" /\ in.v.ty.kind = "map")
          => (out.err = NoErr /\ out.val.ty = in.v.ty
              /\ PairSet(out.val.pairs) = PairSet(in.v.pairs)
              /\ DistinctKeys(out.val.pairs))
    /\ (op = "Unmarshal" /\ in.cur.ty.kind = "map")
          => (out.err = NoErr
              /\ PairSet(out.val.pairs) = LastWins(WirePairs(in.b))
              /\ DistinctKeys(out.val.pairs))

\* a target holding 5 -> 9 and a wire that carries key 1 twice: 1 -> 1 alone
C8_Witness ==
    /\ op = "Unmarshal" /\ in.cur.ty.kind = "map"
    /\ in.cur.pairs = << <<Num("uint8", 5), Num("uint8", 9)>> >>
    /\ in.b = <<2, 1, 0, 1, 1>>
    /\ out.val.pairs = << <<Num("uint8", 1), Num("uint8", 1)>> >>

Invoked(log, ev) == \E i \in 1..Len(log) : log[i].ev = ev

\* C9: when Decode reads a length-prefixed blob (a text or the payload of a
\* custom-capability type) whose prefix promises L >= 1 bytes while the source
\* supplies fewer than L, Decode returns an error, and a custom deserialization
\* method never receives a blob that was not read in full.
C9_ShortRead ==
    (/\ op = "Unmarshal" /\ in.ref
     /\ (in.cur.ty = Pre("string") \/ IsBinaryUnmarshaler(TRUE, in.cur.ty))
     /\ in.b[1] >= 1 /\ Len(in.b) - 1 < in.b[1])
        => (out.err # NoErr /\ ~Invoked(out.log, "UnmarshalBinary"))

\* every error reported in the log is the last entry, and is the error returned
AbortsAt(log, ret) ==
    \A i \in 1..Len(log) : log[i].err # NoErr => (i = Len(log) /\ ret = log[i].err)

\* C10: in any Encode or Decode call, once a sink write, a source read, a custom
\* method or type dispatch reports an error, the call performs no further sink
\* write, source read or custom-method invocation and returns that same error;
\* Marshal then returns the error with no bytes.
C10_AbortsAtFirstError ==
    /\ op = "Encode" => AbortsAt(out.log, out.ret)
    /\ op \in {"Unmarshal", "RoundTrip"} => AbortsAt(out.log, out.err)
    /\ (op = "Marshal" /\ out.err # NoErr) => out.bytes = <<>>

====
